---- MODULE Spec2Model ----
(***************************************************************************)
(* Model of main.py of AudioTranscription: discovery of audio files in a   *)
(* directory (get_audio_file_paths) and the per-file transcription loop    *)
(* (extract_json_from_audio), with the file system of the output directory *)
(* and the remote service's answers as the environment.                    *)
(*                                                                         *)
(* Strings are modelled at token granularity: a file name is a sequence of *)
(* name fragments and "." tokens, a path adds directory and "/" tokens, a  *)
(* JSON text is a sequence of lexical tokens (punctuation, string and      *)
(* number lexemes, white space).                                           *)
(***************************************************************************)
EXTENDS Naturals, Sequences, FiniteSets

\* ------------------------------------------------------------------ bounds
\* Longest directory listing / longest file list handed to the pipeline.
MaxFiles == 2
\* Most asset handles one upload returns when it returns a list.
MaxHandles == 2

\* ------------------------------------------------ paths and content types
DOT == "."
SEP == "/"

\* Index of the last occurrence of tok in s, 0 when there is none.
LastIndexOf(s, tok) ==
    LET hits == {k \in 1..Len(s) : s[k] = tok}
    IN  IF hits = {} THEN 0 ELSE CHOOSE k \in hits : \A m \in hits : m <= k

\* os.path.join(directory, filename) for a relative filename.
join(directory, filename) == <<directory, SEP>> \o filename

\* os.path.basename: what follows the last separator.
basename(p) == SubSeq(p, LastIndexOf(p, SEP) + 1, Len(p))

\* os.path.splitext: <<root, ext>>.  The extension starts at the last dot of
\* the last path component, unless only dots precede that dot in the
\* component (a leading-dot name such as ".wav" has no extension).
splitext(p) ==
    LET sepIndex == LastIndexOf(p, SEP)
        dotIndex == LastIndexOf(p, DOT)
    IN  IF dotIndex > sepIndex
           /\ \E k \in (sepIndex + 1)..(dotIndex - 1) : p[k] # DOT
        THEN <<SubSeq(p, 1, dotIndex - 1), SubSeq(p, dotIndex, Len(p))>>
        ELSE <<p, <<>> >>

\* The absent value (Python's None) of a content type.
None == <<"None">>

\* mimetypes.types_map restricted to the extensions of the model.
types_map ==
    [e \in {"wav", "mp3", "txt"} |->
        CASE e = "wav" -> <<"audio", SEP, "x-wav">>
          [] e = "mp3" -> <<"audio", SEP, "mpeg">>
          [] e = "txt" -> <<"text", SEP, "plain">>]

\* mimetypes.guess_type(path)[0]: by extension only, None when the name has
\* no extension or an unknown one.
guess_type(p) ==
    LET ext == splitext(p)[2]
    IN  IF Len(ext) = 2 /\ ext[2] \in DOMAIN types_map
        THEN types_map[ext[2]]
        ELSE None

\* str.startswith('audio/') on a content type that is a string.
startswith_audio(m) == Len(m) >= 2 /\ SubSeq(m, 1, 2) = <<"audio", SEP>>

\* ------------------------------------------------------------------- JSON
Tok(k, v) == [k |-> k, v |-> v]
LBRACE == Tok("p", "{")
RBRACE == Tok("p", "}")
LBRACK == Tok("p", "[")
RBRACK == Tok("p", "]")
COMMA  == Tok("p", ",")
COLON  == Tok("p", ":")
SP     == Tok("w", " ")
NL     == Tok("w", "\n")
Str(x) == Tok("s", x)
Num(x) == Tok("n", x)
Lit(x) == Tok("l", x)

\* Decoded JSON values.
JStr(s)  == [t |-> "str", s |-> s]
JNum(r)  == [t |-> "num", r |-> r]
JLit(x)  == [t |-> "lit", x |-> x]
JArr(a)  == [t |-> "arr", items |-> a]
JObj(ps) == [t |-> "obj", pairs |-> ps]

\* Number lexemes of the model and the repr Python prints for the decoded
\* number (int stays int, float gets its shortest repr).
NumRepr ==
    [x \in {"1", "1.0", "1e2", "0.5"} |->
        CASE x = "1"   -> "1"
          [] x = "1.0" -> "1.0"
          [] x = "1e2" -> "100.0"
          [] x = "0.5" -> "0.5"]
NumLexemes == DOMAIN NumRepr \cup {"100.0"}
NumValue(x) == IF x \in DOMAIN NumRepr THEN NumRepr[x] ELSE x

\* dict[key] = value: a repeated key keeps its first position and takes the
\* last value.
DictSet(ps, key, val) ==
    IF \E k \in 1..Len(ps) : ps[k][1] = key
    THEN [k \in 1..Len(ps) |-> IF ps[k][1] = key THEN <<key, val>> ELSE ps[k]]
    ELSE Append(ps, <<key, val>>)

RECURSIVE SkipWs(_, _)
SkipWs(toks, i) ==
    IF i <= Len(toks) /\ toks[i].k = "w" THEN SkipWs(toks, i + 1) ELSE i

Fail(i) == [ok |-> FALSE, val |-> JLit("null"), next |-> i]
Ok(v, i) == [ok |-> TRUE, val |-> v, next |-> i]
At(toks, i, tok) == i <= Len(toks) /\ toks[i] = tok

RECURSIVE ParseValue(_, _)
RECURSIVE ParseElems(_, _, _)
RECURSIVE ParseMembers(_, _, _)

\* json.decoder: one value starting at token i (white space already skipped).
ParseValue(toks, i) ==
    IF i > Len(toks) THEN Fail(i)
    ELSE LET tk == toks[i] IN
         CASE tk.k = "s" -> Ok(JStr(tk.v), i + 1)
           [] tk.k = "n" -> IF tk.v \in NumLexemes
                            THEN Ok(JNum(NumValue(tk.v)), i + 1)
                            ELSE Fail(i)
           [] tk.k = "l" -> IF tk.v \in {"true", "false", "null"}
                            THEN Ok(JLit(tk.v), i + 1)
                            ELSE Fail(i)
           [] tk = LBRACK ->
                LET j == SkipWs(toks, i + 1)
                IN  IF At(toks, j, RBRACK) THEN Ok(JArr(<<>>), j + 1)
                    ELSE ParseElems(toks, j, <<>>)
           [] tk = LBRACE ->
                LET j == SkipWs(toks, i + 1)
                IN  IF At(toks, j, RBRACE) THEN Ok(JObj(<<>>), j + 1)
                    ELSE ParseMembers(toks, j, <<>>)
           [] OTHER -> Fail(i)

\* JSONArray: value (',' value)* ']'; a trailing comma is an error.
ParseElems(toks, i, acc) ==
    LET r == ParseValue(toks, i) IN
    IF ~r.ok THEN Fail(i)
    ELSE LET j == SkipWs(toks, r.next)
             items == Append(acc, r.val)
         IN  CASE At(toks, j, RBRACK) -> Ok(JArr(items), j + 1)
               [] At(toks, j, COMMA) -> ParseElems(toks, SkipWs(toks, j + 1), items)
               [] OTHER -> Fail(j)

\* JSONObject: string ':' value (',' string ':' value)* '}'.
ParseMembers(toks, i, acc) ==
    IF ~(i <= Len(toks) /\ toks[i].k = "s") THEN Fail(i)
    ELSE LET j == SkipWs(toks, i + 1) IN
         IF ~At(toks, j, COLON) THEN Fail(j)
         ELSE LET r == ParseValue(toks, SkipWs(toks, j + 1)) IN
              IF ~r.ok THEN Fail(j)
              ELSE LET m == SkipWs(toks, r.next)
                       ps == DictSet(acc, toks[i].v, r.val)
                   IN  CASE At(toks, m, RBRACE) -> Ok(JObj(ps), m + 1)
                         [] At(toks, m, COMMA) ->
                              ParseMembers(toks, SkipWs(toks, m + 1), ps)
                         [] OTHER -> Fail(m)

\* json.loads(text): one value, white space around it, nothing after it.
\* ok = FALSE stands for JSONDecodeError.
loads(toks) ==
    LET r == ParseValue(toks, SkipWs(toks, 1)) IN
    IF r.ok /\ SkipWs(toks, r.next) = Len(toks) + 1 THEN r ELSE Fail(r.next)

\* Spaces per nesting level of json.dump(..., indent=4).
indent == 4

Spaces(n) == [k \in 1..n |-> SP]
NewLine(level) == <<NL>> \o Spaces(indent * level)

RECURSIVE Encode(_, _)
RECURSIVE EncodeItems(_, _, _)
RECURSIVE EncodePairs(_, _, _)

\* json.dump(value, f, indent=4): the text written at nesting depth level.
Encode(v, level) ==
    CASE v.t = "str" -> <<Str(v.s)>>
      [] v.t = "num" -> <<Num(v.r)>>
      [] v.t = "lit" -> <<Lit(v.x)>>
      [] v.t = "arr" ->
           IF v.items = <<>> THEN <<LBRACK, RBRACK>>
           ELSE <<LBRACK>> \o EncodeItems(v.items, 1, level + 1)
                \o NewLine(level) \o <<RBRACK>>
      [] v.t = "obj" ->
           IF v.pairs = <<>> THEN <<LBRACE, RBRACE>>
           ELSE <<LBRACE>> \o EncodePairs(v.pairs, 1, level + 1)
                \o NewLine(level) \o <<RBRACE>>

EncodeItems(items, k, level) ==
    IF k > Len(items) THEN <<>>
    ELSE NewLine(level) \o Encode(items[k], level)
         \o (IF k < Len(items) THEN <<COMMA>> ELSE <<>>)
         \o EncodeItems(items, k + 1, level)

EncodePairs(ps, k, level) ==
    IF k > Len(ps) THEN <<>>
    ELSE NewLine(level) \o <<Str(ps[k][1]), COLON, SP>> \o Encode(ps[k][2], level)
         \o (IF k < Len(ps) THEN <<COMMA>> ELSE <<>>)
         \o EncodePairs(ps, k + 1, level)

dump(v) == Encode(v, 0)

\* ------------------------------------------------------------ environment
AudioData  == "AudioData"
TextOutput == "TextOutput"

call_wav    == <<"call", DOT, "wav">>
call_mp3    == <<"call", DOT, "mp3">>
talk_v2_wav == <<"talk", DOT, "v2", DOT, "wav">>
notes_txt   == <<"notes", DOT, "txt">>
README      == <<"README">>
old_wav     == <<"old", DOT, "wav">>

Entry(name, isfile) == [name |-> name, isfile |-> isfile]

\* What the input directory may hold: audio files (two of them sharing a
\* stem), a text file, a file without extension, and a subdirectory whose
\* name looks like an audio file.
DirEntries ==
    {Entry(call_wav, TRUE), Entry(call_mp3, TRUE), Entry(talk_v2_wav, TRUE),
     Entry(notes_txt, TRUE), Entry(README, TRUE), Entry(old_wav, FALSE)}

\* Sequences over S without repetition, of length at most n.
SeqsNoDup(S, n) ==
    UNION {{s \in [1..k -> S] : \A a, b \in 1..k : a # b => s[a] # s[b]} : k \in 0..n}

\* os.listdir results: distinct names, in any order.
Listings == SeqsNoDup(DirEntries, MaxFiles)

\* file_paths arguments of a direct call: paths of distinct regular files,
\* audio or not.
FileLists ==
    SeqsNoDup({join(AudioData, e.name) : e \in {d \in DirEntries : d.isfile}}, MaxFiles)

\* The text of the remote reply for a file: kind "json" is the transcript
\* as the model formats it, kind "garbage" a reply that is not JSON
\* (truncated, trailing comma, prose).
ResponseText(file_path, kind) ==
    LET name == basename(file_path) IN
    CASE kind = "json" /\ name = call_wav ->
           <<LBRACE, Str("speakers"), COLON, SP, LBRACK, Str("S1"), RBRACK, COMMA, SP,
             Str("text"), COLON, SP, Str("hello"), COMMA, Str("n"), COLON, Num("1e2"),
             COMMA, Str("text"), COLON, Str("call.wav"), RBRACE>>
      [] kind = "json" /\ name = call_mp3 ->
           <<LBRACK, SP, LBRACE, Str("t"), COLON, Num("0.5"), COMMA, Str("ok"), COLON,
             Lit("true"), RBRACE, COMMA, LBRACK, RBRACK, COMMA, Str("call.mp3"), NL,
             RBRACK, NL>>
      [] kind = "json" -> <<NL, LBRACE, SP, RBRACE>>
      [] kind = "garbage" /\ name = call_wav ->
           <<LBRACE, Str("text"), COLON, SP, Str("hello")>>
      [] kind = "garbage" /\ name = call_mp3 ->
           <<LBRACK, Num("1"), COMMA, SP, RBRACK>>
      [] OTHER -> <<Tok("x", "Sorry"), SP, LBRACE, RBRACE>>

\* ------------------------------------------------------------------ state
VARIABLES
    pc,             \* position in the script
    listing,        \* os.listdir(directory) during discovery
    audio_paths,    \* result of get_audio_file_paths
    file_paths,     \* argument of extract_json_from_audio
    idx,            \* position of the loop in file_paths (1-based)
    mime_type,      \* local of the current iteration
    uploaded_parts, \* local: the handles of the current file
    hidx,           \* handle the readiness wait is polling
    response,       \* local: response.text of the current file
    dir_exists,     \* whether output_directory exists
    fs,             \* files of output_directory: path -> content
    log,            \* what the current run did, in order
    plan,           \* the environment's answers of run 1, per file
    run,            \* 1 or 2: the run in progress
    snapshot,       \* fs at the end of run 1
    crashedIn       \* where an unhandled exception came from

vars == <<pc, listing, audio_paths, file_paths, idx, mime_type, uploaded_parts,
          hidx, response, dir_exists, fs, log, plan, run, snapshot, crashedIn>>

Ev(i, ev) == [i |-> i, ev |-> ev]

NoUpload == [kind |-> "none", n |-> 0]
BlankPlan == [upload |-> NoUpload, states |-> <<>>, chat |-> "none", open |-> "none"]

\* ---------------------------------------------------------------- discovery
RECURSIVE Scan(_, _, _, _)
\* The loop of get_audio_file_paths from entry k on.  raised = TRUE is the
\* AttributeError of None.startswith, which nothing catches.
Scan(directory, lst, k, audio_files) ==
    IF k > Len(lst) THEN [raised |-> FALSE, value |-> audio_files]
    ELSE LET filepath == join(directory, lst[k].name) IN
         IF ~lst[k].isfile THEN Scan(directory, lst, k + 1, audio_files)
         ELSE LET m == guess_type(filepath) IN
              IF m = None THEN [raised |-> TRUE, value |-> audio_files]
              ELSE IF startswith_audio(m)
                   THEN Scan(directory, lst, k + 1, Append(audio_files, filepath))
                   ELSE Scan(directory, lst, k + 1, audio_files)

get_audio_file_paths(directory, lst) == Scan(directory, lst, 1, <<>>)

\* ----------------------------------------------------------------- pipeline
\* json_path of line 67.
json_path(file_path) ==
    join(TextOutput, splitext(basename(file_path))[1] \o <<DOT, "json">>)

\* The position after iteration k ends: the next file or the end of the loop.
LoopTo(k) == IF k > Len(file_paths) THEN "done" ELSE "mime"

\* What the next iteration does not read: the locals of the one that ended.
ResetLocals ==
    /\ mime_type' = None
    /\ uploaded_parts' = <<>>
    /\ hidx' = 0
    /\ response' = <<>>

\* In run 2 the environment answers as it did in run 1.
Replays(recorded, o) == IF run = 1 THEN TRUE ELSE recorded = o

Init ==
    /\ \/ pc = "main" /\ listing \in Listings /\ file_paths = <<>>
       \/ pc = "call" /\ listing = <<>> /\ file_paths \in FileLists
    /\ audio_paths = <<>>
    /\ idx = 0
    /\ mime_type = None
    /\ uploaded_parts = <<>>
    /\ hidx = 0
    /\ response = <<>>
    /\ dir_exists = FALSE
    /\ fs = <<>>
    /\ log = <<>>
    /\ plan = <<>>
    /\ run = 1
    /\ snapshot = <<>>
    /\ crashedIn = "none"

\* __main__, line 79: audio_paths = get_audio_file_paths("AudioData").
Discover ==
    /\ pc = "main"
    /\ LET r == get_audio_file_paths(AudioData, listing) IN
       IF r.raised
       THEN /\ pc' = "crashed"
            /\ crashedIn' = "discovery"
            /\ UNCHANGED audio_paths
       ELSE /\ pc' = "discovered"
            /\ audio_paths' = r.value
            /\ UNCHANGED crashedIn
    /\ UNCHANGED <<listing, file_paths, idx, mime_type, uploaded_parts, hidx,
                   response, dir_exists, fs, log, plan, run, snapshot>>

\* __main__, line 88: the call of extract_json_from_audio.  The listing and
\* the global are not read again.
CallExtract ==
    /\ pc = "discovered"
    /\ file_paths' = audio_paths
    /\ listing' = <<>>
    /\ audio_paths' = <<>>
    /\ pc' = "call"
    /\ UNCHANGED <<idx, mime_type, uploaded_parts, hidx, response, dir_exists,
                   fs, log, plan, run, snapshot, crashedIn>>

\* Lines 23-47: the model client and os.makedirs(exist_ok=True); either may
\* raise, and nothing catches it.
Setup ==
    /\ pc = "call"
    /\ \E o \in {"ok", "raise"} :
        /\ Replays("ok", o)
        /\ IF o = "raise"
           THEN /\ pc' = "crashed"
                /\ crashedIn' = "setup"
                /\ UNCHANGED <<idx, dir_exists, plan, log>>
           ELSE /\ dir_exists' = TRUE
                /\ idx' = 1
                /\ pc' = LoopTo(1)
                /\ log' = <<>>
                /\ plan' = IF run = 1 THEN [k \in 1..Len(file_paths) |-> BlankPlan]
                           ELSE plan
                /\ UNCHANGED crashedIn
    /\ UNCHANGED <<listing, audio_paths, file_paths, mime_type, uploaded_parts,
                   hidx, response, fs, run, snapshot>>

\* Lines 51-54: the content type re-check.  None.startswith raises inside
\* the try; a non-audio type is skipped with a warning.
MimeCheck ==
    /\ pc = "mime"
    /\ LET m == guess_type(file_paths[idx]) IN
       CASE m = None ->
              /\ pc' = "except"
              /\ log' = Append(log, Ev(idx, "begin"))
              /\ UNCHANGED <<idx, mime_type, uploaded_parts, hidx, response>>
         [] m # None /\ ~startswith_audio(m) ->
              /\ log' = log \o <<Ev(idx, "begin"), Ev(idx, "skip")>>
              /\ idx' = idx + 1
              /\ pc' = LoopTo(idx + 1)
              /\ ResetLocals
         [] OTHER ->
              /\ mime_type' = m
              /\ pc' = "upload"
              /\ log' = Append(log, Ev(idx, "begin"))
              /\ UNCHANGED <<idx, uploaded_parts, hidx, response>>
    /\ UNCHANGED <<listing, audio_paths, file_paths, dir_exists, fs, plan, run,
                   snapshot, crashedIn>>

\* What upload_to_gemini may do: raise, return one handle, or return a list.
UploadOutcomes ==
    {[kind |-> "raise", n |-> 0], [kind |-> "single", n |-> 1]}
    \cup {[kind |-> "list", n |-> n] : n \in 1..MaxHandles}

\* The value upload_to_gemini returns: a handle or a list of handles, each
\* still being processed by the remote side.
upload_to_gemini(o) ==
    [islist |-> o.kind = "list", hs |-> [k \in 1..o.n |-> "PROCESSING"]]

\* Lines 59-60: a single File object is wrapped in a list.
Normalize(u) == IF ~u.islist THEN [islist |-> TRUE, hs |-> u.hs] ELSE u

\* Line 57 raised.
UploadRaised ==
    /\ pc' = "except"
    /\ UNCHANGED <<uploaded_parts, hidx, log>>

\* The upload returned and the code went on to chat without the readiness wait.
UploadReturned_NoWait(o) ==
    /\ uploaded_parts' = Normalize(upload_to_gemini(o)).hs
    /\ hidx' = 1
    /\ log' = Append(log, Ev(idx, "upload"))
    /\ pc' = "chat"

\* Lines 57-62: the upload returned; normalise and enter the readiness wait.
UploadReturned(o) ==
    /\ uploaded_parts' = Normalize(upload_to_gemini(o)).hs
    /\ hidx' = 1
    /\ log' = Append(log, Ev(idx, "upload"))
    /\ pc' = "wait"

Upload ==
    /\ pc = "upload"
    /\ \E o \in UploadOutcomes :
        /\ Replays(plan[idx].upload, o)
        /\ plan' = [plan EXCEPT ![idx].upload = o]
        /\ IF o.kind = "raise" THEN UploadRaised ELSE UploadReturned(o)
    /\ UNCHANGED <<listing, audio_paths, file_paths, idx, mime_type, response,
                   dir_exists, fs, run, snapshot, crashedIn>>

\* wait_for_files_active, one poll of handle h of n whose state is st: sleep
\* and poll again while it is processing, go on to the next handle (or
\* return after the last) when it is ready, raise otherwise.
wait_for_files_active(st, h, n) ==
    CASE st = "PROCESSING" -> "sleep"
      [] st = "ACTIVE" -> IF h = n THEN "return" ELSE "next"
      [] OTHER -> "raise"

\* The readiness wait raised and the code went on to the chat all the same.
WaitRaised_Swallowed ==
    /\ log' = Append(log, Ev(idx, "wait_failed"))
    /\ pc' = "chat"
    /\ UNCHANGED hidx

\* Line 62 raised: the try of line 50 hands it to the handler of line 73.
WaitRaised ==
    /\ log' = Append(log, Ev(idx, "wait_failed"))
    /\ pc' = "except"
    /\ UNCHANGED hidx

\* Line 62 returned.
WaitReturned ==
    /\ log' = Append(log, Ev(idx, "wait_ok"))
    /\ pc' = "chat"
    /\ UNCHANGED hidx

\* Line 62: one poll of the readiness wait.  The remote side reports the
\* handle as still processing, ready or failed.
Wait ==
    /\ pc = "wait"
    /\ \E st \in {"PROCESSING", "ACTIVE", "FAILED"} :
        LET out == wait_for_files_active(st, hidx, Len(uploaded_parts)) IN
        IF out = "sleep"
        THEN UNCHANGED <<uploaded_parts, hidx, log, plan, pc>>
        ELSE /\ IF run = 1 THEN TRUE ELSE plan[idx].states[hidx] = st
             /\ uploaded_parts' = [uploaded_parts EXCEPT ![hidx] = st]
             /\ plan' = IF run = 1
                        THEN [plan EXCEPT ![idx].states = Append(@, st)]
                        ELSE plan
             /\ CASE out = "next" ->
                       /\ hidx' = hidx + 1
                       /\ UNCHANGED <<log, pc>>
                  [] out = "return" -> WaitReturned
                  [] OTHER -> WaitRaised
    /\ UNCHANGED <<listing, audio_paths, file_paths, idx, mime_type, response,
                   dir_exists, fs, run, snapshot, crashedIn>>

\* Lines 64-65: start_chat with the handles, send_message; the call raises
\* or returns a reply whose text is JSON or is not.
Chat ==
    /\ pc = "chat"
    /\ \E o \in {"raise", "json", "garbage"} :
        /\ Replays(plan[idx].chat, o)
        /\ plan' = [plan EXCEPT ![idx].chat = o]
        /\ IF o = "raise"
           THEN /\ pc' = "except"
                /\ UNCHANGED <<response, log>>
           ELSE /\ response' = ResponseText(file_paths[idx], o)
                /\ log' = Append(log, Ev(idx, "chat"))
                /\ pc' = "open"
    /\ UNCHANGED <<listing, audio_paths, file_paths, idx, mime_type,
                   uploaded_parts, hidx, dir_exists, fs, run, snapshot, crashedIn>>

\* open(path, "a"): an existing file keeps its content.
open_a(files, path) ==
    [p \in DOMAIN files \cup {path} |-> IF p \in DOMAIN files THEN files[p] ELSE <<>>]

\* open(path, "w"): the file is created, or truncated when it exists.
open_w(files, path) ==
    [p \in DOMAIN files \cup {path} |-> IF p = path THEN <<>> ELSE files[p]]

\* f.write(data) on the file opened at path.
write(files, path, data) == [files EXCEPT ![path] = @ \o data]

\* Lines 67-68: json_path is computed and opened for writing, before the
\* reply is parsed.  open may raise (the path is not writable).
\* An I/O error of the write after a successful open (a full disk) is left
\* out of the environment, and so is an output directory that already holds
\* files before run 1: run 2 meets the files of run 1.
Open ==
    /\ pc = "open"
    /\ dir_exists
    /\ \E o \in {"ok", "raise"} :
        /\ Replays(plan[idx].open, o)
        /\ plan' = [plan EXCEPT ![idx].open = o]
        /\ IF o = "raise"
           THEN /\ pc' = "except"
                /\ UNCHANGED <<fs, log>>
           ELSE /\ fs' = open_w(fs, json_path(file_paths[idx]))
                /\ log' = Append(log, Ev(idx, "open"))
                /\ pc' = "dump"
    /\ UNCHANGED <<listing, audio_paths, file_paths, idx, mime_type,
                   uploaded_parts, hidx, response, dir_exists, run, snapshot,
                   crashedIn>>

\* Lines 69-71: json.loads(response.text), then json.dump into the open
\* file; the with statement closes the file either way.
Dump ==
    /\ pc = "dump"
    /\ LET r == loads(response) IN
       IF ~r.ok
       THEN /\ pc' = "except"
            /\ UNCHANGED <<fs, log, idx, mime_type, uploaded_parts, hidx, response>>
       ELSE /\ fs' = write(fs, json_path(file_paths[idx]), dump(r.val))
            /\ log' = Append(log, Ev(idx, "write"))
            /\ idx' = idx + 1
            /\ pc' = LoopTo(idx + 1)
            /\ ResetLocals
    /\ UNCHANGED <<listing, audio_paths, file_paths, dir_exists, plan, run,
                   snapshot, crashedIn>>

\* The handler lets the exception through: the run ends there.
Except_Aborts ==
    /\ pc = "except"
    /\ pc' = "crashed"
    /\ crashedIn' = "loop"
    /\ log' = Append(log, Ev(idx, "error"))
    /\ UNCHANGED <<listing, audio_paths, file_paths, idx, mime_type,
                   uploaded_parts, hidx, response, dir_exists, fs, plan, run,
                   snapshot>>

\* Lines 73-74: the exception of the iteration is logged and the loop goes
\* on with the next file.
Except ==
    /\ pc = "except"
    /\ log' = Append(log, Ev(idx, "error"))
    /\ idx' = idx + 1
    /\ pc' = LoopTo(idx + 1)
    /\ ResetLocals
    /\ UNCHANGED <<listing, audio_paths, file_paths, dir_exists, fs, plan, run,
                   snapshot, crashedIn>>

\* A second call of extract_json_from_audio with the same file list, the
\* output directory as the first run left it.
Rerun ==
    /\ pc = "done"
    /\ run = 1
    /\ run' = 2
    /\ snapshot' = fs
    /\ pc' = "call"
    /\ UNCHANGED <<listing, audio_paths, file_paths, idx, mime_type,
                   uploaded_parts, hidx, response, dir_exists, fs, log, plan,
                   crashedIn>>

Next ==
    \/ Discover
    \/ CallExtract
    \/ Setup
    \/ MimeCheck
    \/ Upload
    \/ Wait
    \/ Chat
    \/ Open
    \/ Dump
    \/ Except
    \/ Rerun

Spec == Init /\ [][Next]_vars

\* ------------------------------------------------------------- properties
Has(i, ev) == \E k \in 1..Len(log) : log[k] = Ev(i, ev)
IsBegin(e) == e.ev = "begin"

\* The decoded transcript the remote side returned for file j.
ResultOf(j) == loads(ResponseText(file_paths[j], "json")).val

\* The content of p decodes to the transcript of file j.
HoldsResultOf(p, j) ==
    /\ p \in DOMAIN fs
    /\ loads(fs[p]).ok
    /\ loads(fs[p]).val = ResultOf(j)

\* output_directory/<base name without its last extension>.json, read off
\* the name: the base name of a typed file ends in a dot and an extension.
ExpectedPath(file_path) ==
    LET b == basename(file_path)
    IN  <<TextOutput, SEP>> \o SubSeq(b, 1, Len(b) - 2) \o <<DOT, "json">>

\* C1: every path of file_paths is attempted exactly once, in list order;
\* the exception of a file is caught in its iteration, every later file is
\* still attempted, and no per-file failure ends the run.
C1_EachFileAttemptedOnceInOrder ==
    LET begun == SelectSeq(log, IsBegin) IN
    /\ \A k \in 1..Len(begun) : begun[k].i = k
    /\ pc \in {"upload", "wait", "chat", "open", "dump", "except"} => Len(begun) = idx
    /\ pc = "mime" => Len(begun) = idx - 1
    /\ pc = "done" => Len(begun) = Len(file_paths)
    /\ log # <<>> => pc # "crashed"

\* C1 witness: the first file failed, the second was processed, the run ended.
C1_Witness ==
    /\ pc = "done"
    /\ Has(1, "error")
    /\ Has(2, "write")

\* C2: when the reply of a file is not valid JSON, nothing happens to the
\* output directory in that iteration: the output path is neither created
\* nor truncated.
C2_BadJsonLeavesOutputUntouched ==
    [][(pc \in {"open", "dump"} /\ ~loads(response).ok) => fs' = fs]_vars

\* C3: when the readiness wait of a file fails, that iteration sends no
\* chat request and neither opens nor writes the output path, and the files
\* after it are still attempted.
C3_FailedWaitWritesNothing ==
    \A k \in 1..Len(log) :
        log[k].ev = "wait_failed" =>
            /\ ~Has(log[k].i, "chat")
            /\ ~Has(log[k].i, "open")
            /\ ~Has(log[k].i, "write")
            /\ pc # "crashed"
            /\ pc = "done" => \A j \in (log[k].i + 1)..Len(file_paths) : Has(j, "begin")

\* C3 witness: the wait of the first file failed, the second file was written.
C3_Witness ==
    /\ pc = "done"
    /\ Has(1, "wait_failed")
    /\ Has(2, "write")
    /\ DOMAIN fs = {json_path(file_paths[2])}

\* C4: the chat request of a file comes after its upload and after its
\* readiness wait returned, and every handle it references is ready.
C4_ChatOnlyAfterReady ==
    /\ \A k \in 1..Len(log) :
         log[k].ev = "chat" =>
            \E a, b \in 1..k :
                /\ a < b
                /\ b < k
                /\ log[a] = Ev(log[k].i, "upload")
                /\ log[b] = Ev(log[k].i, "wait_ok")
    /\ pc \in {"chat", "open", "dump"} =>
         /\ uploaded_parts # <<>>
         /\ \A h \in 1..Len(uploaded_parts) : uploaded_parts[h] = "ACTIVE"

\* C4 witness: the chat of a file whose upload returned a list of several
\* handles has been sent.
C4_Witness ==
    /\ pc = "open"
    /\ plan[idx].upload.kind = "list"
    /\ Len(uploaded_parts) >= 2
    /\ Has(idx, "chat")

\* A regular file of the listing has no determinable content type.
HasUntyped(lst) ==
    \E k \in 1..Len(lst) :
        lst[k].isfile /\ guess_type(join(AudioData, lst[k].name)) = None

\* C5: a regular file without a determinable content type does not make
\* the scan raise; the scan completes and leaves such files out.
C5_UntypedFileDoesNotAbortScan ==
    (pc # "main" /\ HasUntyped(listing)) =>
        /\ pc = "discovered"
        /\ \A k \in 1..Len(audio_paths) : guess_type(audio_paths[k]) # None

\* The reference classification: a regular file whose type is an audio type.
IsAudioEntry(e) ==
    /\ e.isfile
    /\ \E ext \in {"wav", "mp3"} : e.name[Len(e.name)] = ext /\ Len(e.name) >= 3

ReferenceAudio(lst) ==
    LET sel == SelectSeq(lst, IsAudioEntry)
    IN  [k \in 1..Len(sel) |-> join(AudioData, sel[k].name)]

\* C6: for every listing the scan returns exactly the regular files with an
\* audio type, in listing order, joined with the directory.
C6_ScanReturnsExactlyAudioFiles ==
    (pc = "discovered" \/ crashedIn = "discovery") =>
        /\ pc = "discovered"
        /\ audio_paths = ReferenceAudio(listing)

\* C7: a file processed successfully is written at
\* output_directory/<stem>.json with a content that decodes to the decoded
\* reply; after the run every path written during it holds the result of a
\* file with that stem.
C7_OutputNamedByStemHoldsResult ==
    /\ (log # <<>> /\ log[Len(log)].ev = "write") =>
         LET j == log[Len(log)].i IN
         /\ json_path(file_paths[j]) = ExpectedPath(file_paths[j])
         /\ HoldsResultOf(ExpectedPath(file_paths[j]), j)
    /\ pc = "done" =>
         \A i \in 1..Len(file_paths) :
            Has(i, "write") =>
                \E j \in 1..Len(file_paths) :
                    /\ Has(j, "write")
                    /\ ExpectedPath(file_paths[j]) = ExpectedPath(file_paths[i])
                    /\ HoldsResultOf(ExpectedPath(file_paths[i]), j)

\* C8: the run ends abnormally only through an exception of the setup
\* before the loop.
C8_OnlySetupIsFatal ==
    pc = "crashed" => crashedIn = "setup"

\* C9: a second run over the same list with the same answers leaves the
\* output directory as the first run left it, and does not end abnormally.
C9_SecondRunLeavesSameOutput ==
    /\ (pc = "done" /\ run = 2) => fs = snapshot
    /\ run = 2 => pc # "crashed"

\* C9 witness: the second run ended after rewriting a transcript.
C9_Witness ==
    /\ pc = "done"
    /\ run = 2
    /\ Has(1, "write")
    /\ fs[json_path(file_paths[1])] # <<>>

\* C10: of the files sharing a stem, the last one processed successfully
\* owns the output path after the run; a later one that fails leaves the
\* earlier output alone.
C10_LastSuccessOwnsSharedPath ==
    pc = "done" =>
        \A j \in 1..Len(file_paths) :
            LET sharing == {b \in 1..Len(file_paths) :
                              b # j /\ json_path(file_paths[b]) = json_path(file_paths[j])}
            IN  (/\ sharing # {}
                 /\ Has(j, "write")
                 /\ \A b \in sharing : b > j => ~Has(b, "write")) =>
                    HoldsResultOf(json_path(file_paths[j]), j)

====
